---- MODULE Spec2Model ----
(***************************************************************************)
(* Model of the API key aggregator proxy: the credential pool              *)
(* (ApiKeyManager), the dispatcher (RequestDispatcher), the upstream       *)
(* forwarder (GoogleApiForwarder.forwardOpenAIRequest), the OpenAI route   *)
(* handler router.post('/v1/chat/completions') and its stream relay        *)
(* handleStreamingResponse.                                                *)
(*                                                                         *)
(* JavaScript runs each continuation to completion, so one action is one   *)
(* continuation: the code between two awaits that wait for the network.    *)
(***************************************************************************)
EXTENDS Integers, Sequences, FiniteSets, TLC

\* ------------------------------------------------------------ bounds
NumKeys == 2            \* credentials loaded from GEMINI_API_KEYS
NumReqs == 3            \* inbound requests, numbered in arrival order
MaxChunks == 3          \* chunks of an upstream stream body (RelaySpec)
MaxChunkLen == 1        \* bytes in one upstream chunk (RelaySpec)
TickMs == 30000         \* granularity of the clock
MaxInFlight == 3        \* cap on a request count in StoreSpec

\* ------------------------------------------------------------ program constants
KEY_COOL_DOWN_DURATION_MS == 60000
RATE_LIMIT_STATUS == 429
DEFAULT_ERROR_STATUS == 500
UNAVAILABLE_STATUS == 503
BAD_REQUEST_STATUS == 400

\* The clock runs until a cooldown window that began at 0 has elapsed: the
\* least number of ticks that reaches KEY_COOL_DOWN_DURATION_MS.
MaxTicks == (KEY_COOL_DOWN_DURATION_MS + TickMs - 1) \div TickMs

Keys == 0 .. (NumKeys - 1)
Reqs == 1 .. NumReqs
NoKey == -1             \* selectApiKey() returned null
NoStatus == 0           \* error.statusCode is undefined

\* Bytes of the upstream body: 0x61 'a', 0xC3 (lead byte of a two-byte
\* character), 0xA9 (continuation byte); 0xC3 0xA9 is U+00E9.
Bytes == {97, 195, 169}
IsAscii(b) == b < 128
IsLeadOfTwo(b) == b \in 194 .. 223
IsContinuation(b) == b \in 128 .. 191
\* U+FFFD as res.write() encodes it in UTF-8.
REPLACEMENT == <<239, 191, 189>>

VARIABLES
    requestCount,       \* ApiKeyManager: in-flight count of each key
    coolDownUntil,      \* ApiKeyManager: cooldown deadline of each key, 0 = unset
    cursor,             \* RequestDispatcher: round-robin position
    now,                \* Date.now()
    pc,                 \* where each request handler is suspended
    apiKey,             \* handler local: the selected key, NoKey = null
    respStatus,         \* forwarder local: response.status of the fetch
    forwardResult,      \* handler local: what forwardOpenAIRequest returned
    trace,              \* history of each request: the calls it made, in order
    upstream,           \* the part of the upstream body not yet read
    pending,            \* TextDecoder: bytes of an incomplete character held back
    readChunks,         \* history: chunks the reader has delivered
    sink,               \* history: what res.write() was given, as bytes
    readsIssued,        \* history: number of reader.read() calls
    readsAfterClose,    \* history: reader.read() calls issued after the client left
    clientGone,         \* the inbound caller has disconnected
    flooredRelease,     \* history: a release found the key's count at 0
    rateLimitDeadline,  \* history: for each key, the end of the cooldown window
                        \* of the last request the upstream answered 429
    unflushed,          \* res: non-empty writes the socket has not taken yet
    sdkCall             \* a call of forwardRequest: its inputs and its result

vars == <<requestCount, coolDownUntil, cursor, now, pc, apiKey,
          respStatus, forwardResult, trace, upstream, pending, readChunks,
          sink, readsIssued, readsAfterClose, clientGone, flooredRelease,
          rateLimitDeadline, unflushed, sdkCall>>

storeVars == <<requestCount, coolDownUntil, cursor>>
relayVars == <<upstream, pending, readChunks, sink, readsIssued,
               readsAfterClose, unflushed>>

\* ------------------------------------------------------------ helpers
Ev(op, key, arg) == [op |-> op, key |-> key, arg |-> arg]

\* Number of events of tr with the given op and key.
RECURSIVE CountEv(_, _, _)
CountEv(tr, op, key) ==
    IF tr = <<>> THEN 0
    ELSE (IF Head(tr).op = op /\ Head(tr).key = key THEN 1 ELSE 0)
         + CountEv(Tail(tr), op, key)

RECURSIVE CountOp(_, _)
CountOp(tr, op) ==
    IF tr = <<>> THEN 0
    ELSE (IF Head(tr).op = op THEN 1 ELSE 0) + CountOp(Tail(tr), op)

RECURSIVE Flatten(_)
Flatten(ss) == IF ss = <<>> THEN <<>> ELSE Head(ss) \o Flatten(Tail(ss))

\* ------------------------------------------------------------ ApiKeyManager
\* isEligible: the cooldown is unset or the deadline has passed.
\* Mutant: a key stays excluded at the instant of its deadline.
isAvailable_Strict(cd, k, t) == cd[k] = 0 \/ t > cd[k]

isAvailable(cd, k, t) == cd[k] = 0 \/ t >= cd[k]

incrementRequestCount(cnt, k) == [cnt EXCEPT ![k] = @ + 1]

\* Mutant: the decrement without its floor.
decrementRequestCount_NoFloor(cnt, k) == [cnt EXCEPT ![k] = @ - 1]

decrementRequestCount(cnt, k) ==
    [cnt EXCEPT ![k] = IF @ > 0 THEN @ - 1 ELSE 0]

markAsCoolingDown(cd, k, ms) == [cd EXCEPT ![k] = now + ms]

\* ------------------------------------------------------------ RequestDispatcher
\* Round robin: scan once around the list from the cursor and return the
\* first available key, or NoKey.
RECURSIVE scanFrom(_, _, _)
scanFrom(cd, start, n) ==
    IF n = NumKeys THEN NoKey
    ELSE LET k == (start + n) % NumKeys
         IN  IF isAvailable(cd, k, now) THEN k ELSE scanFrom(cd, start, n + 1)

\* Mutant: the scan starts one position past the cursor.
selectApiKey_SkipsOne(cd, cur) == scanFrom(cd, cur + 1, 0)

selectApiKey(cd, cur) == scanFrom(cd, cur, 0)

\* ------------------------------------------------------------ GoogleApiForwarder
GoogleApiError(statusCode, key, isRateLimitError) ==
    [kind |-> "error", statusCode |-> statusCode, apiKey |-> key,
     isRateLimitError |-> isRateLimitError]

StreamResult == [kind |-> "stream", statusCode |-> 0, apiKey |-> NoKey,
                 isRateLimitError |-> FALSE]
ResponseResult == [kind |-> "response", statusCode |-> 0, apiKey |-> NoKey,
                   isRateLimitError |-> FALSE]
\* { response: null } or { stream: null }: every field of the result is falsy.
EmptyResult == [kind |-> "empty", statusCode |-> 0, apiKey |-> NoKey,
                isRateLimitError |-> FALSE]
\* forwardOpenAIRequest rejected: there is no result.
Rejected == [kind |-> "rejected", statusCode |-> 0, apiKey |-> NoKey,
             isRateLimitError |-> FALSE]
NoResult == [kind |-> "none", statusCode |-> 0, apiKey |-> NoKey,
             isRateLimitError |-> FALSE]

\* Values that fetch(), response.text() and response.json() can reject with:
\* statusCode is the error's own statusCode property (NoStatus when it has
\* none); serializable is whether JSON.stringify(error) returns (it throws a
\* TypeError on a circular structure or a BigInt).
ThrownErrors == [statusCode : {NoStatus, RATE_LIMIT_STATUS}, serializable : BOOLEAN]

\* The catch block of forwardOpenAIRequest.
forwardCatch(error, key) ==
    IF ~error.serializable
    THEN Rejected
    ELSE GoogleApiError(
            IF error.statusCode # NoStatus THEN error.statusCode
            ELSE DEFAULT_ERROR_STATUS,
            key, FALSE)

\* The !response.ok branch of forwardOpenAIRequest, after response.text().
forwardNotOk(status, key) ==
    GoogleApiError(status, key, status = RATE_LIMIT_STATUS)

\* Values the SDK calls of forwardRequest can reject with: responseStatus is
\* error.response.status and statusCode is error.statusCode (NoStatus when
\* absent); serializable as above.
SdkErrors == [responseStatus : {NoStatus, RATE_LIMIT_STATUS, DEFAULT_ERROR_STATUS},
              statusCode : {NoStatus, RATE_LIMIT_STATUS},
              serializable : BOOLEAN]

SdkMethods == {"generateContent", "streamGenerateContent", "countTokens"}
MethodNames == SdkMethods \cup {"embedContent"}
ModelIds == {"", "gemini-pro"}

\* The catch block of forwardRequest.
forwardRequestCatch(error, key) ==
    IF ~error.serializable
    THEN Rejected
    ELSE LET statusCode == IF error.responseStatus # NoStatus
                           THEN error.responseStatus
                           ELSE error.statusCode
         IN  GoogleApiError(statusCode, key, statusCode = RATE_LIMIT_STATUS)

\* forwardRequest. getGenerativeModel is called before the try block and
\* throws on an empty model name; throws says whether the SDK call rejects,
\* with error.
forwardRequest(modelId, methodName, throws, error, key) ==
    IF modelId = "" THEN Rejected
    ELSE IF methodName \notin SdkMethods
         THEN GoogleApiError(BAD_REQUEST_STATUS, key, FALSE)
    ELSE IF throws THEN forwardRequestCatch(error, key)
    ELSE IF methodName = "streamGenerateContent" THEN StreamResult
    ELSE ResponseResult

\* No call of forwardRequest is under way.
NoCall == [modelId |-> "", methodName |-> "", throws |-> FALSE,
           error |-> [responseStatus |-> NoStatus, statusCode |-> NoStatus,
                      serializable |-> TRUE],
           key |-> NoKey, result |-> NoResult]

\* Bodies of a streamed upstream response: the chunks the reader will
\* deliver, then end-of-stream ("eos") or a failed read ("error").
RECURSIVE SeqsUpTo(_, _)
SeqsUpTo(S, n) ==
    IF n = 0 THEN {<<>>}
    ELSE LET shorter == SeqsUpTo(S, n - 1)
         IN  shorter \cup {Append(q, x) : q \in shorter, x \in S}

Chunks(len) == SeqsUpTo(Bytes, len) \ {<<>>}
StreamBodies(n, len) == [chunks : SeqsUpTo(Chunks(len), n), tail : {"eos", "error"}]
NoBody == [chunks |-> <<>>, tail |-> "none"]

\* Bodies drawn while whole requests are modelled: a stream of one chunk,
\* and a stream that fails after one chunk.
HandlerBodies ==
    {[chunks |-> << <<97>> >>, tail |-> "eos"],
     [chunks |-> << <<97>> >>, tail |-> "error"]}

\* ------------------------------------------------------------ TextDecoder
\* decoder.decode(value, { stream: true }) followed by res.write(chunk):
\* the UTF-8 decoder of the bytes, then the UTF-8 encoding of the string
\* written. Returns the bytes written and the bytes the decoder holds back.
RECURSIVE decode(_, _, _)
decode(bytes, pend, out) ==
    IF bytes = <<>> THEN [out |-> out, pending |-> pend]
    ELSE LET b == Head(bytes)
             rest == Tail(bytes)
         IN  IF pend = <<>>
             THEN IF IsAscii(b) THEN decode(rest, <<>>, Append(out, b))
                  ELSE IF IsLeadOfTwo(b) THEN decode(rest, <<b>>, out)
                  ELSE decode(rest, <<>>, out \o REPLACEMENT)
             ELSE IF IsContinuation(b)
                  THEN decode(rest, <<>>, out \o pend \o <<b>>)
                  \* an invalid sequence: U+FFFD, and the byte is decoded again
                  ELSE decode(bytes, <<>>, out \o REPLACEMENT)

\* ------------------------------------------------------------ route handler
\* What the handler changes between two awaits: the store and its own history.
World(r) == [cnt |-> requestCount, cd |-> coolDownUntil, tr |-> trace[r]]

Log(w, op, key, arg) == [w EXCEPT !.tr = Append(@, Ev(op, key, arg))]

Release(w, k) ==
    Log([w EXCEPT !.cnt = decrementRequestCount(@, k)], "release", k, 0)

CoolDown(w, k, ms) ==
    Log([w EXCEPT !.cd = markAsCoolingDown(@, k, ms)], "coolDown", k, ms)

\* Mutant: the error branch sends the error and cools the key down afterwards.
onForwardError_RespondFirst(w, k, err) ==
    LET w1 == Log(w, "respondError", k,
                  IF err.statusCode # NoStatus THEN err.statusCode
                  ELSE DEFAULT_ERROR_STATUS)
    IN  IF err.isRateLimitError
        THEN CoolDown(w1, k, KEY_COOL_DOWN_DURATION_MS)
        ELSE w1

\* Mutant: the error branch selects and forwards again instead of answering.
onForwardError_Retry(w, k, err) ==
    LET w1 == IF err.isRateLimitError
              THEN CoolDown(w, k, KEY_COOL_DOWN_DURATION_MS)
              ELSE w
    IN  Log(Log(w1, "select", k, 0), "forward", k, 0)

\* Mutant: the error branch cools the key down on every error.
onForwardError_AlwaysCoolDown(w, k, err) ==
    Log(CoolDown(w, k, KEY_COOL_DOWN_DURATION_MS), "respondError", k,
        IF err.statusCode # NoStatus THEN err.statusCode
        ELSE DEFAULT_ERROR_STATUS)

\* Mutant: on a rate limit the error branch cools every key down.
onForwardError_CoolsAllKeys(w, k, err) ==
    LET w1 == IF err.isRateLimitError
              THEN [w EXCEPT !.cd = [j \in Keys |->
                                        now + KEY_COOL_DOWN_DURATION_MS],
                             !.tr = Append(@, Ev("coolDown", k,
                                                 KEY_COOL_DOWN_DURATION_MS))]
              ELSE w
    IN  Log(w1, "respondError", k,
            IF err.statusCode # NoStatus THEN err.statusCode
            ELSE DEFAULT_ERROR_STATUS)

\* The error branch of the handler: cool the key down on a rate limit, then
\* send the translated error.
onForwardError(w, k, err) ==
    LET w1 == IF err.isRateLimitError
              THEN CoolDown(w, k, KEY_COOL_DOWN_DURATION_MS)
              ELSE w
    IN  Log(w1, "respondError", k,
            IF err.statusCode # NoStatus THEN err.statusCode
            ELSE DEFAULT_ERROR_STATUS)

\* Mutant: a streamed request keeps its key while the stream is relayed.
afterForward_StreamHoldsKey(w, k, fr) ==
    IF fr.kind = "stream" THEN Log(w, "relayStart", k, 0)
    ELSE LET w1 == Release(w, k)
         IN  IF fr.kind = "error" THEN onForwardError(w1, k, fr)
             ELSE IF fr.kind = "response" THEN Log(w1, "respondJson", k, 200)
             ELSE Log(w1, "respondUnknown", k, DEFAULT_ERROR_STATUS)

\* The handler from the return of forwardOpenAIRequest to its next await or
\* its end.
afterForward(w, k, fr) ==
    LET w1 == Release(w, k)
    IN  IF fr.kind = "error" THEN onForwardError(w1, k, fr)
        ELSE IF fr.kind = "stream" THEN Log(w1, "relayStart", k, 0)
        ELSE IF fr.kind = "response" THEN Log(w1, "respondJson", k, 200)
        ELSE Log(w1, "respondUnknown", k, DEFAULT_ERROR_STATUS)

\* Mutant: the catch block swallows the exception.
handlerCatch_Swallows(w, k) == w

\* The catch block of the handler: forwardOpenAIRequest rejected.
handlerCatch(w, k) == Log(w, "next", k, 0)

handlerResume(w, k, fr) ==
    IF fr.kind = "rejected" THEN handlerCatch(w, k) ELSE afterForward(w, k, fr)

\* ------------------------------------------------------------ initial state
Init ==
    /\ requestCount = [k \in Keys |-> 0]
    /\ coolDownUntil = [k \in Keys |-> 0]
    /\ cursor = 0
    /\ now = 0
    /\ pc = [r \in Reqs |-> "idle"]
    /\ apiKey = [r \in Reqs |-> NoKey]
    /\ respStatus = [r \in Reqs |-> 0]
    /\ forwardResult = [r \in Reqs |-> NoResult]
    /\ trace = [r \in Reqs |-> <<>>]
    /\ upstream = [r \in Reqs |-> NoBody]
    /\ pending = [r \in Reqs |-> <<>>]
    /\ readChunks = [r \in Reqs |-> <<>>]
    /\ sink = [r \in Reqs |-> <<>>]
    /\ readsIssued = [r \in Reqs |-> 0]
    /\ readsAfterClose = [r \in Reqs |-> 0]
    /\ clientGone = [r \in Reqs |-> FALSE]
    /\ flooredRelease = [k \in Keys |-> FALSE]
    /\ rateLimitDeadline = [k \in Keys |-> 0]
    /\ unflushed = [r \in Reqs |-> 0]
    /\ sdkCall = NoCall

\* ------------------------------------------------------------ actions
\* Mutant: the handler without the return after its 503 response: it goes on
\* to forward with no key.
HandlerStart_NoReturn(r) ==
    /\ pc[r] = "idle"
    /\ \A q \in Reqs : q < r => pc[q] # "idle"
    /\ LET k == selectApiKey(coolDownUntil, cursor)
       IN  /\ trace' = [trace EXCEPT ![r] =
                 IF k = NoKey
                 THEN <<Ev("select", NoKey, 0),
                        Ev("respondUnavailable", NoKey, UNAVAILABLE_STATUS),
                        Ev("forward", NoKey, 0)>>
                 ELSE <<Ev("select", k, coolDownUntil[k]), Ev("forward", k, 0)>>]
           /\ requestCount' = IF k = NoKey THEN requestCount
                              ELSE incrementRequestCount(requestCount, k)
           /\ cursor' = IF k = NoKey THEN cursor ELSE (k + 1) % NumKeys
           /\ apiKey' = [apiKey EXCEPT ![r] = k]
           /\ pc' = [pc EXCEPT ![r] = "fetch"]
    /\ UNCHANGED <<coolDownUntil, now, respStatus, forwardResult, relayVars,
                   clientGone, flooredRelease, rateLimitDeadline, sdkCall>>

\* The handler from its entry to the await of fetch() inside
\* forwardOpenAIRequest: select a key (the dispatcher marks it in use), answer
\* 503 when there is none, else issue the upstream call. The select event
\* records the deadline the key carried when it was selected.
HandlerStart(r) ==
    /\ pc[r] = "idle"
    /\ \A q \in Reqs : q < r => pc[q] # "idle"
    /\ LET k == selectApiKey(coolDownUntil, cursor)
       IN  IF k = NoKey
           THEN /\ trace' = [trace EXCEPT ![r] =
                      <<Ev("select", NoKey, 0),
                        Ev("respondUnavailable", NoKey, UNAVAILABLE_STATUS)>>]
                /\ pc' = [pc EXCEPT ![r] = "done"]
                /\ UNCHANGED <<requestCount, cursor, apiKey>>
           ELSE /\ requestCount' = incrementRequestCount(requestCount, k)
                /\ cursor' = (k + 1) % NumKeys
                /\ apiKey' = [apiKey EXCEPT ![r] = k]
                /\ trace' = [trace EXCEPT ![r] =
                      <<Ev("select", k, coolDownUntil[k]), Ev("forward", k, 0)>>]
                /\ pc' = [pc EXCEPT ![r] = "fetch"]
    /\ UNCHANGED <<coolDownUntil, now, respStatus, forwardResult, relayVars,
                   clientGone, flooredRelease,
                   rateLimitDeadline, sdkCall>>

\* forwardOpenAIRequest returned fr (or rejected) and the handler runs on to
\* its next await or its end. body is the upstream body when fr is a stream.
Resume(r, fr, body) ==
    LET w == handlerResume(World(r), apiKey[r], fr)
    IN  /\ forwardResult' = [forwardResult EXCEPT ![r] = fr]
        /\ requestCount' = w.cnt
        /\ coolDownUntil' = w.cd
        /\ trace' = [trace EXCEPT ![r] = w.tr]
        /\ IF fr.kind = "stream"
           THEN \* handleStreamingResponse up to its first reader.read()
                /\ pc' = [pc EXCEPT ![r] = "relay"]
                /\ upstream' = [upstream EXCEPT ![r] = body]
                /\ readsIssued' = [readsIssued EXCEPT ![r] = 1]
                /\ readsAfterClose' = [readsAfterClose EXCEPT ![r] =
                                         IF clientGone[r] THEN 1 ELSE 0]
           ELSE /\ pc' = [pc EXCEPT ![r] = "done"]
                /\ UNCHANGED <<upstream, readsIssued, readsAfterClose>>
        \* the locals of forwardOpenAIRequest go out of scope
        /\ respStatus' = [respStatus EXCEPT ![r] = 0]
        /\ rateLimitDeadline' =
              IF respStatus[r] = RATE_LIMIT_STATUS
              THEN [rateLimitDeadline EXCEPT ![apiKey[r]] =
                      now + KEY_COOL_DOWN_DURATION_MS]
              ELSE rateLimitDeadline
        /\ flooredRelease' =
              IF CountOp(w.tr, "release") > CountOp(trace[r], "release")
                 /\ requestCount[apiKey[r]] = 0
              THEN [flooredRelease EXCEPT ![apiKey[r]] = TRUE]
              ELSE flooredRelease
        /\ UNCHANGED <<cursor, now, apiKey, pending, readChunks, sink,
                       unflushed, clientGone, sdkCall>>

\* fetch() rejects: the catch block of forwardOpenAIRequest.
FetchThrows(r) ==
    /\ pc[r] = "fetch"
    /\ \E e \in ThrownErrors : Resume(r, forwardCatch(e, apiKey[r]), NoBody)

\* fetch() resolves with a non-2xx status: forwardOpenAIRequest awaits
\* response.text().
FetchNotOk(r) ==
    /\ pc[r] = "fetch"
    /\ \E s \in {RATE_LIMIT_STATUS, DEFAULT_ERROR_STATUS} :
          respStatus' = [respStatus EXCEPT ![r] = s]
    /\ pc' = [pc EXCEPT ![r] = "text"]
    /\ UNCHANGED <<storeVars, now, apiKey, forwardResult, trace,
                   relayVars, clientGone, flooredRelease,
                   rateLimitDeadline, sdkCall>>

\* fetch() resolves with a 2xx status and the request asked for a stream
\* (requestBody.stream, an input that is read only here): forwardOpenAIRequest
\* returns response.body (null for a response without a body).
FetchOkStream(r) ==
    /\ pc[r] = "fetch"
    /\ \/ \E body \in HandlerBodies : Resume(r, StreamResult, body)
       \/ Resume(r, EmptyResult, NoBody)

\* fetch() resolves with a 2xx status, no stream asked: forwardOpenAIRequest
\* awaits response.json().
FetchOkUnary(r) ==
    /\ pc[r] = "fetch"
    /\ pc' = [pc EXCEPT ![r] = "json"]
    /\ UNCHANGED <<storeVars, now, apiKey, respStatus,
                   forwardResult, trace, relayVars, clientGone, flooredRelease,
                   rateLimitDeadline, sdkCall>>

\* response.text() resolves: the Failure of the !response.ok branch.
TextDone(r) ==
    /\ pc[r] = "text"
    /\ Resume(r, forwardNotOk(respStatus[r], apiKey[r]), NoBody)

\* response.json() resolves, with an object or with a falsy value (null).
JsonDone(r) ==
    /\ pc[r] = "json"
    /\ \E fr \in {ResponseResult, EmptyResult} : Resume(r, fr, NoBody)

\* response.text() or response.json() rejects: the catch block.
BodyThrows(r) ==
    /\ pc[r] \in {"text", "json"}
    /\ \E e \in ThrownErrors : Resume(r, forwardCatch(e, apiKey[r]), NoBody)

\* ------------------------------------------------------------ handleStreamingResponse
\* One turn of the loop for a delivered chunk: decode it and write the text.
relayChunk(pend, value) == decode(value, pend, <<>>)

\* reader.read() reported done: break, then finally res.end().
relayDone(tr, k) == Append(tr, Ev("end", k, 0))

\* Mutant: the catch block writes an error frame before the response ends.
relayCatch_ErrorFrame(tr, k) ==
    tr \o <<Ev("readError", k, 0), Ev("write", k, 0), Ev("end", k, 0)>>

\* reader.read() rejected: the catch block logs, then finally res.end().
relayCatch(tr, k) == tr \o <<Ev("readError", k, 0), Ev("end", k, 0)>>

\* reader.read() resolves with the next chunk: it is decoded and written, and
\* reader.read() is called again whatever the state of the response (the loop
\* has no exit but done and a rejected read).
RelayChunk(r) ==
    /\ pc[r] = "relay"
    /\ upstream[r].chunks # <<>>
    /\ LET value == Head(upstream[r].chunks)
           d == relayChunk(pending[r], value)
       IN  /\ upstream' = [upstream EXCEPT ![r].chunks = Tail(@)]
           /\ readChunks' = [readChunks EXCEPT ![r] = Append(@, value)]
           /\ pending' = [pending EXCEPT ![r] = d.pending]
           /\ sink' = [sink EXCEPT ![r] = Append(@, d.out)]
           \* res.write() queues a non-empty string; what it returns is not
           \* looked at
           /\ unflushed' = [unflushed EXCEPT ![r] =
                              IF d.out = <<>> THEN @ ELSE @ + 1]
           /\ trace' = [trace EXCEPT ![r] = Append(@, Ev("write", apiKey[r], 0))]
           /\ readsIssued' = [readsIssued EXCEPT ![r] = @ + 1]
           /\ readsAfterClose' = [readsAfterClose EXCEPT ![r] =
                                    IF clientGone[r] THEN @ + 1 ELSE @]
           /\ pc' = pc
    /\ UNCHANGED <<storeVars, now, apiKey, respStatus,
                   forwardResult, clientGone, flooredRelease,
                   rateLimitDeadline, sdkCall>>

\* reader.read() resolves with done.
RelayEnd(r) ==
    /\ pc[r] = "relay"
    /\ upstream[r].chunks = <<>>
    /\ upstream[r].tail = "eos"
    /\ trace' = [trace EXCEPT ![r] = relayDone(@, apiKey[r])]
    /\ pc' = [pc EXCEPT ![r] = "done"]
    /\ UNCHANGED <<storeVars, now, apiKey, respStatus,
                   forwardResult, relayVars, clientGone, flooredRelease,
                   rateLimitDeadline, sdkCall>>

\* reader.read() rejects.
RelayFail(r) ==
    /\ pc[r] = "relay"
    /\ upstream[r].chunks = <<>>
    /\ upstream[r].tail = "error"
    /\ trace' = [trace EXCEPT ![r] = relayCatch(@, apiKey[r])]
    /\ pc' = [pc EXCEPT ![r] = "done"]
    /\ UNCHANGED <<storeVars, now, apiKey, respStatus,
                   forwardResult, relayVars, clientGone, flooredRelease,
                   rateLimitDeadline, sdkCall>>

\* The inbound caller disconnects. No handler listens for it.
ClientDisconnect(r) ==
    /\ pc[r] \notin {"idle", "done"}
    /\ ~clientGone[r]
    /\ clientGone' = [clientGone EXCEPT ![r] = TRUE]
    /\ UNCHANGED <<storeVars, now, pc, apiKey, respStatus,
                   forwardResult, trace, relayVars, flooredRelease,
                   rateLimitDeadline, sdkCall>>

\* Time passes.
Tick ==
    /\ now < TickMs * MaxTicks
    /\ now' = now + TickMs
    /\ UNCHANGED <<storeVars, pc, apiKey, respStatus,
                   forwardResult, trace, relayVars, clientGone, flooredRelease,
                   rateLimitDeadline, sdkCall>>

Next ==
    \/ \E r \in Reqs : HandlerStart(r)
    \/ \E r \in Reqs : FetchThrows(r)
    \/ \E r \in Reqs : FetchNotOk(r)
    \/ \E r \in Reqs : FetchOkStream(r)
    \/ \E r \in Reqs : FetchOkUnary(r)
    \/ \E r \in Reqs : TextDone(r)
    \/ \E r \in Reqs : JsonDone(r)
    \/ \E r \in Reqs : BodyThrows(r)
    \/ \E r \in Reqs : RelayChunk(r)
    \/ \E r \in Reqs : RelayEnd(r)
    \/ \E r \in Reqs : RelayFail(r)
    \/ Tick

\* Requests from their arrival to their end, the clock, and the shared store.
\* No handler observes a client disconnect, so it is left to the
\* specifications that are about it.
Spec == Init /\ [][Next]_vars

\* ------------------------------------------------------------ fairness
\* The continuations of request r: what runs when its upstream call, body
\* read or stream read settles.
RequestStep(r) ==
    \/ FetchThrows(r)
    \/ FetchNotOk(r)
    \/ FetchOkStream(r)
    \/ FetchOkUnary(r)
    \/ TextDone(r)
    \/ JsonDone(r)
    \/ BodyThrows(r)
    \/ RelayChunk(r)
    \/ RelayEnd(r)
    \/ RelayFail(r)

\* Requests arrive and their continuations run, at one instant of the clock:
\* no step of a handler but select reads it, and select still finds keys
\* available, cooling down, or none.
FairNext ==
    \/ \E r \in Reqs : HandlerStart(r)
    \/ \E r \in Reqs : RequestStep(r)

\* Upstream calls and upstream streams terminate: while an await of a
\* started request is pending, one of them settles and its continuation runs.
FairSpec ==
    Init /\ [][FairNext]_vars /\ WF_vars(\E r \in Reqs : RequestStep(r))

\* ------------------------------------------------------------ the relay alone
\* Request 1 has selected key 0, the upstream answered 2xx with a streamed
\* body, the key was released and handleStreamingResponse awaits its first
\* read. The body is any stream of at most MaxChunks chunks.
RelayInit ==
    /\ requestCount = [k \in Keys |-> 0]
    /\ coolDownUntil = [k \in Keys |-> 0]
    /\ cursor = 1 % NumKeys
    /\ now = 0
    /\ pc = [r \in Reqs |-> IF r = 1 THEN "relay" ELSE "idle"]
    /\ apiKey = [r \in Reqs |-> IF r = 1 THEN 0 ELSE NoKey]
    /\ respStatus = [r \in Reqs |-> 0]
    /\ forwardResult = [r \in Reqs |-> IF r = 1 THEN StreamResult ELSE NoResult]
    /\ trace = [r \in Reqs |->
                  IF r = 1
                  THEN <<Ev("select", 0, 0), Ev("forward", 0, 0),
                         Ev("release", 0, 0), Ev("relayStart", 0, 0)>>
                  ELSE <<>>]
    /\ \E body \in StreamBodies(MaxChunks, MaxChunkLen) :
          upstream = [r \in Reqs |-> IF r = 1 THEN body ELSE NoBody]
    /\ pending = [r \in Reqs |-> <<>>]
    /\ readChunks = [r \in Reqs |-> <<>>]
    /\ sink = [r \in Reqs |-> <<>>]
    /\ readsIssued = [r \in Reqs |-> IF r = 1 THEN 1 ELSE 0]
    /\ readsAfterClose = [r \in Reqs |-> 0]
    /\ clientGone = [r \in Reqs |-> FALSE]
    /\ flooredRelease = [k \in Keys |-> FALSE]
    /\ rateLimitDeadline = [k \in Keys |-> 0]
    /\ unflushed = [r \in Reqs |-> 0]
    /\ sdkCall = NoCall

\* The socket of the inbound caller takes the oldest chunk that res.write()
\* queued. Nothing in handleStreamingResponse waits for it.
SinkFlush(r) ==
    /\ pc[r] \in {"relay", "done"}
    /\ ~clientGone[r]
    /\ unflushed[r] > 0
    /\ unflushed' = [unflushed EXCEPT ![r] = @ - 1]
    /\ UNCHANGED <<storeVars, now, pc, apiKey, respStatus, forwardResult, trace,
                   upstream, pending, readChunks, sink, readsIssued,
                   readsAfterClose, clientGone, flooredRelease,
                   rateLimitDeadline, sdkCall>>

RelayNext ==
    \/ \E r \in Reqs : RelayChunk(r)
    \/ \E r \in Reqs : SinkFlush(r)
    \/ \E r \in Reqs : RelayEnd(r)
    \/ \E r \in Reqs : RelayFail(r)
    \/ \E r \in Reqs : ClientDisconnect(r)

RelaySpec == RelayInit /\ [][RelayNext]_vars

\* ------------------------------------------------------------ the store alone
\* Any sequence of calls of the store's operations, as any of its callers
\* may issue them.
storeFrame == <<now, pc, apiKey, respStatus, forwardResult, trace,
                relayVars, clientGone, rateLimitDeadline, sdkCall>>

StoreSelect ==
    LET k == selectApiKey(coolDownUntil, cursor)
    IN  /\ k # NoKey
        /\ requestCount[k] < MaxInFlight
        /\ requestCount' = incrementRequestCount(requestCount, k)
        /\ cursor' = (k + 1) % NumKeys
        /\ UNCHANGED <<coolDownUntil, flooredRelease, storeFrame>>

StoreRelease(k) ==
    /\ requestCount' = decrementRequestCount(requestCount, k)
    /\ flooredRelease' = [flooredRelease EXCEPT ![k] = @ \/ requestCount[k] = 0]
    /\ UNCHANGED <<coolDownUntil, cursor, storeFrame>>

StoreCoolDown(k) ==
    /\ coolDownUntil' = markAsCoolingDown(coolDownUntil, k, KEY_COOL_DOWN_DURATION_MS)
    /\ UNCHANGED <<requestCount, cursor, flooredRelease, storeFrame>>

StoreNext ==
    \/ StoreSelect
    \/ \E k \in Keys : StoreRelease(k)
    \/ \E k \in Keys : StoreCoolDown(k)
    \/ Tick

StoreSpec == Init /\ [][StoreNext]_vars

\* ------------------------------------------------------------ client aborts
\* Spec with callers that may disconnect at any moment between the arrival of
\* their request and its end.
AbortNext ==
    \/ Next
    \/ \E r \in Reqs : ClientDisconnect(r)

AbortSpec == Init /\ [][AbortNext]_vars

\* ------------------------------------------------------------ forwardRequest alone
\* One call of forwardRequest, with any model name, method name, key and
\* outcome of the SDK call, and its settling.
ForwardInit ==
    /\ requestCount = [k \in Keys |-> 0]
    /\ coolDownUntil = [k \in Keys |-> 0]
    /\ cursor = 0
    /\ now = 0
    /\ pc = [r \in Reqs |-> "idle"]
    /\ apiKey = [r \in Reqs |-> NoKey]
    /\ respStatus = [r \in Reqs |-> 0]
    /\ forwardResult = [r \in Reqs |-> NoResult]
    /\ trace = [r \in Reqs |-> <<>>]
    /\ upstream = [r \in Reqs |-> NoBody]
    /\ pending = [r \in Reqs |-> <<>>]
    /\ readChunks = [r \in Reqs |-> <<>>]
    /\ sink = [r \in Reqs |-> <<>>]
    /\ readsIssued = [r \in Reqs |-> 0]
    /\ readsAfterClose = [r \in Reqs |-> 0]
    /\ clientGone = [r \in Reqs |-> FALSE]
    /\ flooredRelease = [k \in Keys |-> FALSE]
    /\ rateLimitDeadline = [k \in Keys |-> 0]
    /\ unflushed = [r \in Reqs |-> 0]
    /\ sdkCall \in [modelId : ModelIds, methodName : MethodNames,
                    throws : BOOLEAN, error : SdkErrors, key : Keys,
                    result : {NoResult}]

\* The promise of forwardRequest settles.
ForwardRequestSettles ==
    /\ sdkCall.result = NoResult
    /\ sdkCall.key # NoKey
    /\ sdkCall' = [sdkCall EXCEPT !.result =
                      forwardRequest(sdkCall.modelId, sdkCall.methodName,
                                     sdkCall.throws, sdkCall.error, sdkCall.key)]
    /\ UNCHANGED <<storeVars, now, pc, apiKey, respStatus, forwardResult, trace,
                   relayVars, clientGone, flooredRelease, rateLimitDeadline>>

ForwardNext == ForwardRequestSettles

ForwardSpec == ForwardInit /\ [][ForwardNext]_vars

\* ------------------------------------------------------------ properties
Awaiting == {"fetch", "text", "json"}

\* Positions of the events of tr with the given op.
Positions(tr, op) == {i \in 1 .. Len(tr) : tr[i].op = op}

EligibleKeys == {k \in Keys : isAvailable(coolDownUntil, k, now)}

\* C1: a request that selected a key and has ended, on whatever path
\* (response sent, stream ended, failure sent, or an exception handed to the
\* error middleware), has released that key exactly once.
C1_ReleasedExactlyOnce ==
    \A r \in Reqs :
        (pc[r] = "done" /\ apiKey[r] # NoKey)
            => CountEv(trace[r], "release", apiKey[r]) = 1

\* C2: while exactly one key is eligible, that key's in-flight count is the
\* number of requests that selected it and still await their forward outcome.
C2_InFlightIsRequestsInFlight ==
    \A k \in Keys :
        EligibleKeys = {k}
            => requestCount[k] =
                   Cardinality({r \in Reqs : apiKey[r] = k /\ pc[r] \in Awaiting})

\* C3: when forward returned a Failure with isRateLimit = true, the handler
\* called coolDown once, on the key selected for the request, with the
\* configured duration, before it sent the error response.
C3_CoolDownBeforeErrorResponse ==
    \A r \in Reqs :
        (forwardResult[r].kind = "error" /\ forwardResult[r].isRateLimitError)
            => /\ Positions(trace[r], "coolDown") # {}
               /\ \A i \in Positions(trace[r], "coolDown") :
                     /\ trace[r][i] =
                            Ev("coolDown", apiKey[r], KEY_COOL_DOWN_DURATION_MS)
                     /\ \A j \in Positions(trace[r], "respondError") : i < j
               /\ CountOp(trace[r], "coolDown") = 1
               /\ CountOp(trace[r], "respondError") = 1
               /\ coolDownUntil[apiKey[r]] # 0

C3_Witness ==
    \E r \in Reqs :
        /\ pc[r] = "done"
        /\ forwardResult[r].kind = "error"
        /\ forwardResult[r].isRateLimitError
        /\ CountOp(trace[r], "respondError") = 1

\* C4: every Failure outcome of the forwarder has isRateLimit true exactly
\* when its statusCode is 429.
C4_RateLimitIffStatus429 ==
    \A r \in Reqs :
        forwardResult[r].kind = "error"
            => (forwardResult[r].isRateLimitError
                    <=> forwardResult[r].statusCode = RATE_LIMIT_STATUS)

\* C5: once a request that the upstream answered with 429 on key K has been
\* handled, no select() returns K before the cooldown window has elapsed, and
\* K is eligible again once it has.
C5_ExcludedUntilWindowElapsed ==
    /\ [][\A r \in Reqs :
             (pc[r] = "idle" /\ pc'[r] = "fetch")
                 => now >= rateLimitDeadline[apiKey'[r]]]_vars
    /\ [](\A k \in Keys :
             now >= rateLimitDeadline[k] => isAvailable(coolDownUntil, k, now))

\* C6: a request for which select() finds no key answers 503 and ends: it
\* never reaches the forwarder, and the step changes no key's in-flight count
\* or cooldown; an ended request does nothing more.
C6_UnavailableTouchesNothing ==
    [][\A r \in Reqs :
          /\ (pc[r] = "idle" /\ pc'[r] # "idle"
                 /\ selectApiKey(coolDownUntil, cursor) = NoKey)
                => /\ pc'[r] = "done"
                   /\ trace'[r] = <<Ev("select", NoKey, 0),
                                    Ev("respondUnavailable", NoKey,
                                       UNAVAILABLE_STATUS)>>
                   /\ forwardResult'[r] = NoResult
                   /\ requestCount' = requestCount
                   /\ coolDownUntil' = coolDownUntil
          /\ pc[r] = "done"
                => /\ pc'[r] = "done"
                   /\ trace'[r] = trace[r]
                   /\ forwardResult'[r] = forwardResult[r]]_vars

C6_Witness ==
    \E r \in Reqs :
        /\ pc[r] = "done"
        /\ trace[r] = <<Ev("select", NoKey, 0),
                        Ev("respondUnavailable", NoKey, UNAVAILABLE_STATUS)>>
        /\ EligibleKeys = {}

Relayed(r) == pc[r] = "done" /\ forwardResult[r].kind = "stream"

\* C7: after a stream that ended in end-of-stream, the writes to the sink are
\* exactly the chunks the upstream delivered, in order, and the sink was
\* closed once, after the last write.
C7_WritesAreTheChunks ==
    \A r \in Reqs :
        (Relayed(r) /\ upstream[r].tail = "eos")
            => /\ sink[r] = readChunks[r]
               /\ CountOp(trace[r], "end") = 1
               /\ trace[r][Len(trace[r])].op = "end"

\* C8: the relay issues no read to the upstream after the far end has closed
\* the sink.
C8_NoReadAfterSinkClosed ==
    \A r \in Reqs : readsAfterClose[r] = 0

\* C9: after a stream whose read failed, the relay has written once per chunk
\* delivered before the failure and nothing else (the bytes written are the
\* decoding of those chunks), it closed the sink once, as its last act, and
\* no exception reached the handler's catch.
C9_ReadFailureClosesQuietly ==
    \A r \in Reqs :
        (Relayed(r) /\ upstream[r].tail = "error")
            => LET tr == trace[r]
                   n == Len(tr)
               IN  /\ tr[n].op = "end"
                   /\ tr[n - 1].op = "readError"
                   /\ CountOp(tr, "end") = 1
                   /\ CountOp(tr, "readError") = 1
                   /\ CountOp(tr, "write") = Len(readChunks[r])
                   /\ Len(sink[r]) = Len(readChunks[r])
                   /\ Flatten(sink[r])
                        = decode(Flatten(readChunks[r]), <<>>, <<>>).out
                   /\ CountOp(tr, "next") = 0

C9_Witness ==
    \E r \in Reqs :
        /\ Relayed(r)
        /\ upstream[r].tail = "error"
        /\ Len(readChunks[r]) >= 1

\* C10: no key's in-flight count is ever negative, also after a release
\* that had no matching selection.
C10_RequestCountNeverNegative ==
    \A k \in Keys : requestCount[k] \in Nat

C10_Witness ==
    \E k \in Keys : flooredRelease[k] /\ requestCount[k] = 0

\* C11: as long as no key has been cooled down, the r-th select() returns
\* key (r - 1) mod N: the first N calls return every key once in list order
\* and call N + 1 returns key 0 again.
C11_RoundRobinInListOrder ==
    \A r \in Reqs :
        (trace[r] # <<>> /\ \A k \in Keys : coolDownUntil[k] = 0)
            => /\ trace[r][1].op = "select"
               /\ trace[r][1].key = (r - 1) % NumKeys

C11_Witness ==
    /\ \A k \in Keys : coolDownUntil[k] = 0
    /\ \A r \in 1 .. (NumKeys + 1) : trace[r] # <<>>
    /\ trace[NumKeys + 1][1].key = 0
    /\ \A k \in Keys : trace[k + 1][1].key = k

\* A key is cooling down while its deadline is set and not yet reached.
CoolingDown(k) == coolDownUntil[k] # 0 /\ now < coolDownUntil[k]

\* C12: a select() that finds every key cooling down returns none; a select()
\* that finds exactly one key whose deadline has passed returns that key.
\* Nothing but the clock makes a key eligible again: the passing of time
\* leaves every deadline as it was.
C12_EmptyUntilADeadlinePasses ==
    [][/\ \A r \in Reqs :
             (pc[r] = "idle" /\ pc'[r] # "idle")
                 => /\ (\A k \in Keys : CoolingDown(k))
                          => apiKey'[r] = NoKey /\ trace'[r][1].key = NoKey
                    /\ \A k \in Keys :
                          (~CoolingDown(k)
                             /\ \A j \in Keys \ {k} : CoolingDown(j))
                              => apiKey'[r] = k /\ trace'[r][1].key = k
       /\ (now' # now => coolDownUntil' = coolDownUntil)]_vars

\* A request selected a key whose deadline had passed while every other key
\* was cooling down: each of them was cooled before that deadline and is
\* cooling still.
C12_Witness ==
    \E r \in Reqs :
        /\ apiKey[r] # NoKey
        /\ trace[r][1].arg # 0
        /\ now >= trace[r][1].arg
        /\ \A j \in Keys \ {apiKey[r]} :
              /\ CoolingDown(j)
              /\ coolDownUntil[j] - KEY_COOL_DOWN_DURATION_MS < trace[r][1].arg

\* C13: a request selects at most once and forwards at most once. A request
\* whose forward call returned an error has ended with one select and one
\* forward in its history, all of its calls naming the one key it selected.
C13_OneSelectOneForward ==
    \A r \in Reqs :
        /\ CountOp(trace[r], "select") <= 1
        /\ CountOp(trace[r], "forward") <= 1
        /\ forwardResult[r].kind = "error"
              => /\ pc[r] = "done"
                 /\ CountOp(trace[r], "select") = 1
                 /\ CountOp(trace[r], "forward") = 1
                 /\ \A i \in 1 .. Len(trace[r]) : trace[r][i].key = apiKey[r]
                 /\ trace[r][Len(trace[r])].op = "respondError"

\* A request failed on a rate limit while another key was available.
C13_Witness ==
    \E r \in Reqs :
        /\ forwardResult[r].kind = "error"
        /\ forwardResult[r].isRateLimitError
        /\ pc[r] = "done"
        /\ \E k \in Keys \ {apiKey[r]} : ~CoolingDown(k)

\* C14: a request whose caller disconnected after a key was selected has
\* released that key exactly once by the time it ends.
C14_ReleasedOnceDespiteDisconnect ==
    \A r \in Reqs :
        (pc[r] = "done" /\ clientGone[r] /\ apiKey[r] # NoKey)
            => CountEv(trace[r], "release", apiKey[r]) = 1

\* C15: a call of forwardRequest or of forwardOpenAIRequest that has settled
\* has returned a result (a response, a stream or an error): it has not
\* rejected.
C15_ForwardersAlwaysReturn ==
    /\ sdkCall.result.kind # "rejected"
    /\ \A r \in Reqs : forwardResult[r].kind # "rejected"

\* C16: the step in which a handler receives an error that is not a rate
\* limit leaves the deadline of every key as it was, and a handler that has
\* cooled a key down received a rate-limit error.
C16_NoCoolDownWithoutRateLimit ==
    /\ [][\A r \in Reqs :
             (forwardResult[r].kind = "none"
                /\ forwardResult'[r].kind = "error"
                /\ ~forwardResult'[r].isRateLimitError)
                 => coolDownUntil' = coolDownUntil]_vars
    /\ [](\A r \in Reqs :
             CountOp(trace[r], "coolDown") > 0
                 => /\ forwardResult[r].kind = "error"
                    /\ forwardResult[r].isRateLimitError)

\* A request ended on an error that is not a rate limit and its key has no
\* deadline.
C16_Witness ==
    \E r \in Reqs :
        /\ pc[r] = "done"
        /\ forwardResult[r].kind = "error"
        /\ ~forwardResult[r].isRateLimitError
        /\ CountOp(trace[r], "respondError") = 1
        /\ coolDownUntil[apiKey[r]] = 0

\* Requests that selected key k and have not released it.
Holders(k) ==
    {q \in Reqs : apiKey[q] = k /\ CountOp(trace[q], "release") = 0}

\* C17: a request whose stream is being relayed, or has been, released its
\* key once, after the forward call and before the relay started and before
\* any chunk was written; the count of its key is the number of requests that
\* still hold the key, none of them a relaying one.
C17_ReleasedBeforeRelay ==
    \A r \in Reqs :
        (CountOp(trace[r], "relayStart") > 0 \/ pc[r] = "relay")
            => /\ CountEv(trace[r], "release", apiKey[r]) = 1
               /\ \A i \in Positions(trace[r], "release") :
                     /\ \A j \in Positions(trace[r], "forward") : j < i
                     /\ \A j \in Positions(trace[r], "relayStart") : i < j
                     /\ \A j \in Positions(trace[r], "write") : i < j
               /\ r \notin Holders(apiKey[r])
               /\ requestCount[apiKey[r]] = Cardinality(Holders(apiKey[r]))

\* A relay has written a chunk and waits for the next while no request holds
\* its key.
C17_Witness ==
    \E r \in Reqs :
        /\ pc[r] = "relay"
        /\ CountOp(trace[r], "write") > 0
        /\ requestCount[apiKey[r]] = 0

\* C18: the chunks read from the upstream that the caller's socket has not
\* taken yet are never more than one: the next chunk is read only after the
\* one before it has left the response's buffer.
C18_AtMostOneChunkBuffered ==
    \A r \in Reqs : unflushed[r] <= 1

\* C19: after a stream that ended in end-of-stream, the bytes written to the
\* sink, concatenated, are the bytes of the upstream chunks, concatenated,
\* whatever the bytes are and wherever the chunks are split.
C19_BytesPassThrough ==
    \A r \in Reqs :
        (Relayed(r) /\ upstream[r].tail = "eos")
            => Flatten(sink[r]) = Flatten(readChunks[r])

\* C20: a step of the handling of a request leaves the count and the
\* deadline of every key but the one the request selected as they were, and
\* every store call in a request's history names the key it selected.
C20_OnlyTheSelectedKeyChanges ==
    /\ [][\A r \in Reqs :
             (pc'[r] # pc[r] \/ trace'[r] # trace[r])
                 => \A k \in Keys \ {apiKey'[r]} :
                       /\ requestCount'[k] = requestCount[k]
                       /\ coolDownUntil'[k] = coolDownUntil[k]]_vars
    /\ [](\A r \in Reqs : \A i \in 1 .. Len(trace[r]) :
             trace[r][i].op \in {"select", "release", "coolDown"}
                 => trace[r][i].key = apiKey[r])

\* A request was rate limited and has ended: its key has a deadline and no
\* holder, and another key has neither a deadline nor a holder.
C20_Witness ==
    \E r \in Reqs : \E k \in Keys \ {apiKey[r]} :
        /\ pc[r] = "done"
        /\ apiKey[r] # NoKey
        /\ CountOp(trace[r], "coolDown") = 1
        /\ CountOp(trace[r], "release") = 1
        /\ coolDownUntil[apiKey[r]] # 0
        /\ coolDownUntil[k] = 0
        /\ requestCount[k] = 0

\* The calls that end the handling of a request: a response sent whole, the
\* end of a streamed response, or the hand-off to the error middleware.
TerminalOps ==
    {"respondUnavailable", "respondError", "respondJson", "respondUnknown",
     "end", "next"}

RECURSIVE CountTerminal(_)
CountTerminal(tr) ==
    IF tr = <<>> THEN 0
    ELSE (IF Head(tr).op \in TerminalOps THEN 1 ELSE 0) + CountTerminal(Tail(tr))

\* C21: a request has made no terminal call while its handler runs and
\* exactly one, its last call, once the handler has ended; and every request
\* the handler started does end: again and again no handler is left running.
C21_ExactlyOneTerminalAction ==
    /\ [](\A r \in Reqs :
             /\ pc[r] # "done" => CountTerminal(trace[r]) = 0
             /\ pc[r] = "done"
                   => /\ CountTerminal(trace[r]) = 1
                      /\ trace[r][Len(trace[r])].op \in TerminalOps)
    /\ []<>(\A r \in Reqs : pc[r] \in {"idle", "done"})

\* Every request has ended, one of them at the end of its stream and one in
\* the error middleware.
C21_Witness ==
    /\ \A r \in Reqs : pc[r] = "done"
    /\ \E r \in Reqs : trace[r][Len(trace[r])].op = "end"
    /\ \E r \in Reqs : trace[r][Len(trace[r])].op = "next"

====
